---- MODULE Spec2Model ----
(***************************************************************************)
(* Model of src/src/app.rs (swb, a minimal web-browser shell):             *)
(*   - the event loop of start_browser (back/forward history, the          *)
(*     via_nav_btns suppression flag, the failed-load fallback),           *)
(*   - the producers wired up in AppState::new (buttons, address field,    *)
(*     bookmark menu items, web view load callbacks),                      *)
(*   - the bookmark menu generation of AppState::new.                      *)
(*                                                                         *)
(* A String is a sequence of tokens; "" is << >>.  The web view and the    *)
(* async channel are libraries: the web view is modelled as a FIFO of      *)
(* in-flight loads that reports each load through the two callbacks of     *)
(* AppState::new, the channel as a FIFO sequence.                          *)
(***************************************************************************)
EXTENDS Naturals, Sequences, FiniteSets

\* ------------------------------------------------------------------ bounds
\* steps of the environment in one run: user actions (clicks, address field
\* edits, links followed) and loads the web view starts
MaxSteps == 5
\* the user acts while fewer than MaxQueue events wait in the channel
MaxQueue == 1
\* folders in a bookmark configuration, entries in one folder
MaxFolders == 2
MaxEntries == 2
\* activations of the bookmark menu and the sync button in one run
MaxClicks == 1

\* ----------------------------------------------------------------- strings
\* the placeholder of cfg.search_engine, and the line break of the address field
PH == "${}"
LF == "LF"

\* Option<T>: None, Some(x)
None == << >>
Some(x) == << x >>

\* str::replace("${}", url): every placeholder token of the template becomes url
RECURSIVE Replace(_, _)
Replace(template, url) ==
    IF template = << >> THEN << >>
    ELSE (IF Head(template) = PH THEN url ELSE << Head(template) >>)
         \o Replace(Tail(template), url)

\* TextBuffer::line_count
RECURSIVE LineCount(_)
LineCount(txt) ==
    IF txt = << >> THEN 1
    ELSE (IF Head(txt) = LF THEN 1 ELSE 0) + LineCount(Tail(txt))

\* txt.split("\n").collect::<String>()
RECURSIVE SplitCollect(_)
SplitCollect(txt) ==
    IF txt = << >> THEN << >>
    ELSE (IF Head(txt) = LF THEN << >> ELSE << Head(txt) >>)
         \o SplitCollect(Tail(txt))

\* ------------------------------------------------------------ configuration
\* AppConfig::default(): start_page, search_engine, local, bookmarks
DefaultConfig ==
    [ start_page |-> << "a" >>, search_engine |-> << "q=", PH >>,
      local |-> FALSE, bookmarks |-> << >> ]

\* what the user may leave in the address field, and the links a page offers
UserTexts == { << "b", LF >>, << LF >>, << "b" >> }
LinkUrls == { << "c" >> }

\* home::home_dir(): the home directory, or None when it cannot be resolved
HomeDirs == { None, Some(<< "/home" >>) }

\* bookmark entries: Vec<String> holding [label, url]
Entries == { << << "A" >>, << "u" >> >>, << << "B" >>, << "v" >> >> }
Folders == UNION { [1..n -> Entries] : n \in 0..MaxEntries }
Trees == UNION { [1..n -> Folders] : n \in 0..MaxFolders }

VARIABLES
    cfg,            \* AppConfig: start_page, search_engine, local, bookmarks
    menu,           \* bookmark_menu: the items AppState::new appended
    back_urls,      \* Vec<String>
    fwd_urls,       \* Vec<Option<String>>
    via_nav_btns,   \* bool
    err_url,        \* String
    tb_text,        \* the text of app.tb_buff
    queue,          \* the channel: events sent and not yet received
    loads,          \* web view: loads issued and not yet over, oldest first
    view_uri,       \* web view: WebView::uri
    panicked,       \* the event handler panicked (unwrap of None)
    nuser,          \* user actions so far
    nstarted,       \* loads started so far
    nsent,          \* events sent so far; an event's id is its send number
    handled,        \* ids of the events received, in the order received
    last            \* the last event handled: the event, the state before it
                    \* and the commands its handler gave the sink

vars == << cfg, menu, back_urls, fwd_urls, via_nav_btns, err_url, tb_text,
           queue, loads, view_uri, panicked, nuser, nstarted, nsent,
           handled, last >>

\* the dispatcher's own state, and what no step after startup changes
histVars == << back_urls, fwd_urls, via_nav_btns, err_url >>
envVars == << cfg, menu >>

Last(s) == s[Len(s)]
Front(s) == SubSeq(s, 1, Len(s) - 1)

\* struct Event { tp, url }; src and at (not in the code) name the producer:
\* the widget or the load it comes from, and the place of a bookmark MenuItem
Event(tp, url, src) == [ tp |-> tp, url |-> url, src |-> src, at |-> << 0, 0 >> ]

\* ------------------------------------------------------------ bookmark menu
\* one MenuItem with connect_activate: label and the url its activation sends
Item(name, bm_url) == [ kind |-> "item", label |-> name, url |-> bm_url ]

\* folder.len() == 1: name = bm[0], bm_url = bm[0]
SingleItem(folder) ==
    LET bm == folder[1]
        name == bm[1]
        bm_url == bm[1]
    IN  Item(name, bm_url)

\* a sub menu whose items start at the folder's first entry
SubMenuFromFirst(folder) ==
    [ kind |-> "submenu", label |-> folder[1][1],
      children |-> [ i \in 1..Len(folder) |-> Item(folder[i][1], folder[i][2]) ] ]

\* folder.len() >= 2: fldr_name = folder[0][0]; for i in 1..folder.len():
\* name = bookmark[0], bm_url = bookmark[1]
SubMenu(folder) ==
    LET fldr_name == folder[1][1]
    IN  [ kind |-> "submenu", label |-> fldr_name,
          children |-> [ i \in 1..(Len(folder) - 1) |->
                           Item(folder[i + 1][1], folder[i + 1][2]) ] ]

\* for folder in cfg.bookmarks: match folder.len() { 0, 1, _ }
RECURSIVE BookmarkMenu(_)
BookmarkMenu(bookmarks) ==
    IF bookmarks = << >> THEN << >>
    ELSE LET folder == Head(bookmarks)
             node == IF Len(folder) = 0 THEN << >>
                     ELSE IF Len(folder) = 1 THEN << SingleItem(folder) >>
                     ELSE << SubMenu(folder) >>
         IN  node \o BookmarkMenu(Tail(bookmarks))

\* -------------------------------------------------------------------- sink
\* app.web_view.load_uri(url) / reload(): one more load in flight
Load(url, src) == [ url |-> url, src |-> src, started |-> FALSE ]
LoadCmd(url) == [ op |-> "load_uri", url |-> url ]
ReloadCmd == [ op |-> "reload", url |-> << >> ]
SetTextCmd(url) == [ op |-> "set_text", url |-> url ]

\* a connect_changed without the line_count test: every change sends
ChangedAlways(txt) ==
    LET val == SplitCollect(txt)
    IN  [ text |-> val, spawn |-> << Event("ChangePage", val, "field") >> ]

\* TextBuffer connect_changed, run on every change of the buffer: the text the
\* buffer ends with and the futures spawned, in the order spawned.  The
\* set_text(&val) of the callback changes the buffer, so the callback runs
\* again on val before the outer one spawns its send.
RECURSIVE Changed(_)
Changed(txt) ==
    IF LineCount(txt) > 1
    THEN LET val == SplitCollect(txt)
             inner == Changed(val)
         IN  [ text |-> inner.text,
               spawn |-> inner.spawn \o << Event("ChangePage", val, "field") >> ]
    ELSE [ text |-> txt, spawn |-> << >> ]

\* ---------------------------------------------------------------- startup
NoPrev == [ tp |-> "none", back |-> << >>, fwd |-> << >>, text |-> << >> ]
NoEvent == [ tp |-> "none", url |-> << >>, src |-> "none", id |-> 0,
             back |-> << >>, fwd |-> << >>, via |-> FALSE, err |-> << >>,
             text |-> << >>, cmds |-> << >>, panic |-> FALSE,
             prev |-> NoPrev ]

\* start_browser up to main(), AppState::new included
Startup(config) ==
    /\ cfg = config
    /\ menu = BookmarkMenu(config.bookmarks)
    /\ via_nav_btns = FALSE
    /\ back_urls = << config.start_page >>
    /\ fwd_urls = << >>
    /\ err_url = << >>
    /\ tb_text = config.start_page
    /\ queue = << >>
    /\ loads = << Load(config.start_page, "start") >>
    /\ view_uri = config.start_page
    /\ panicked = FALSE
    /\ nuser = 0
    /\ nstarted = 0
    /\ nsent = 0
    /\ handled = << >>
    /\ last = NoEvent

\* the default configuration: no bookmarks, no sync button
Init == Startup(DefaultConfig)

\* a configuration with bookmarks and local = true
InitMenu ==
    \E b \in Trees : Startup([ DefaultConfig EXCEPT !.local = TRUE,
                                                   !.bookmarks = b ])

\* --------------------------------------------------------------- producers
\* spawn(async move { let _ = tx.send(event).await; }) for each event of evs:
\* the channel is unbounded, so each future ends at its first poll, and the
\* main context polls the futures in the order they were spawned; a callback
\* and the sends it spawned are one step.  q is the channel before the sends.
RECURSIVE Sent(_, _, _)
Sent(q, evs, n) ==
    IF evs = << >> THEN q
    ELSE Sent(Append(q, [ ev |-> Head(evs), id |-> n + 1 ]), Tail(evs), n + 1)

Spawn(q, evs) ==
    /\ queue' = Sent(q, evs, nsent)
    /\ nsent' = nsent + Len(evs)

\* the user may act: the run's budget is not spent, few events wait
UserMayAct ==
    /\ ~panicked
    /\ nuser + nstarted < MaxSteps
    /\ Len(queue) < MaxQueue

\* a button's connect_clicked
Clicked(ev) ==
    /\ UserMayAct
    /\ nuser' = nuser + 1
    /\ Spawn(queue, << ev >>)
    /\ UNCHANGED << envVars, histVars, tb_text, loads, view_uri, panicked,
                    nstarted, handled, last >>

BackButton == Clicked(Event("BackClicked", << >>, "button"))
ForwardButton == Clicked(Event("ForwardClicked", << >>, "button"))
RefreshButton == Clicked(Event("RefreshClicked", << >>, "button"))

\* the sync button, there if cfg.local
SyncButton ==
    /\ cfg.local
    /\ ~panicked
    /\ nuser < MaxClicks
    /\ nuser' = nuser + 1
    /\ Spawn(queue, << Event("LoginRegister", << >>, "button") >>)
    /\ UNCHANGED << envVars, histVars, tb_text, loads, view_uri, panicked,
                    nstarted, handled, last >>

\* the MenuItems with connect_activate: << node, 0 >> for a top-level item,
\* << node, child >> for an item of a sub menu
ItemAt(m, at) == IF at[2] = 0 THEN m[at[1]] ELSE m[at[1]].children[at[2]]
ItemPlaces(m) ==
    { << i, 0 >> : i \in { j \in 1..Len(m) : m[j].kind = "item" } }
    \cup UNION { { << i, k >> : k \in 1..Len(m[i].children) } :
                 i \in { j \in 1..Len(m) : m[j].kind = "submenu" } }

\* a bookmark MenuItem's connect_activate
BookmarkItem ==
    \E at \in ItemPlaces(menu) :
        /\ ~panicked
        /\ nuser < MaxClicks
        /\ nuser' = nuser + 1
        /\ Spawn(queue, << [ Event("ChangePage", ItemAt(menu, at).url,
                                    "bookmark") EXCEPT !.at = at ] >>)
        /\ UNCHANGED << envVars, histVars, tb_text, loads, view_uri,
                        panicked, nstarted, handled, last >>

\* the user edits the address field: connect_changed runs on the new text
AddressField ==
    \E txt \in UserTexts :
        /\ UserMayAct
        /\ nuser' = nuser + 1
        /\ tb_text' = Changed(txt).text
        /\ Spawn(queue, Changed(txt).spawn)
        /\ UNCHANGED << envVars, histVars, loads, view_uri, panicked,
                        nstarted, handled, last >>

\* the user follows a link of the page: the web view begins a load by itself
LinkClicked ==
    \E url \in LinkUrls :
        /\ UserMayAct
        /\ nuser' = nuser + 1
        /\ loads' = Append(loads, Load(url, "link"))
        /\ UNCHANGED << envVars, histVars, tb_text, queue, view_uri, panicked,
                        nstarted, nsent, handled, last >>

\* ---------------------------------------------------------------- web view
\* connect_load_changed with LoadEvent::Started: the oldest load starts; the
\* callback reads WebView::uri and sends ChangedPage
LoadStarted ==
    /\ ~panicked
    /\ nuser + nstarted < MaxSteps
    /\ loads # << >>
    /\ ~Head(loads).started
    /\ LET txt == Head(loads).url
       IN  /\ view_uri' = txt
           /\ loads' = [ loads EXCEPT ![1].started = TRUE ]
           /\ Spawn(queue, << Event("ChangedPage", txt, Head(loads).src) >>)
    /\ nstarted' = nstarted + 1
    /\ UNCHANGED << envVars, histVars, tb_text, panicked, nuser, handled,
                    last >>

\* the oldest load, once started, ends well: no callback sends anything
LoadFinished ==
    /\ ~panicked
    /\ loads # << >>
    /\ Head(loads).started
    /\ loads' = Tail(loads)
    /\ UNCHANGED << envVars, histVars, tb_text, queue, view_uri, panicked,
                    nuser, nstarted, nsent, handled, last >>

\* connect_load_failed: the oldest load, once started, fails
LoadFailed ==
    /\ ~panicked
    /\ loads # << >>
    /\ Head(loads).started
    /\ loads' = Tail(loads)
    /\ Spawn(queue, << Event("FailedChangePage", Head(loads).url,
                             Head(loads).src) >>)
    /\ UNCHANGED << envVars, histVars, tb_text, view_uri, panicked, nuser,
                    nstarted, handled, last >>

\* -------------------------------------------------------------- dispatcher
\* a receiver that takes the newest event of the channel
RecvNewest == Last(queue)

\* while let Ok(event) = rx.recv().await: the oldest event of the channel
Recv == Head(queue)

\* the event handler is idle and receives an event of type tp
Receives(tp) ==
    /\ ~panicked
    /\ queue # << >>
    /\ Recv.ev.tp = tp
    /\ handled' = Append(handled, Recv.id)

\* (not in the code) what the handler of the received event did
Did(cmds, panic) ==
    last' = [ tp |-> Recv.ev.tp, url |-> Recv.ev.url, src |-> Recv.ev.src,
              id |-> Recv.id, back |-> back_urls, fwd |-> fwd_urls,
              via |-> via_nav_btns, err |-> err_url, text |-> tb_text,
              cmds |-> cmds, panic |-> panic,
              prev |-> [ tp |-> last.tp, back |-> last.back,
                         fwd |-> last.fwd, text |-> last.text ] ]

\* app.tb_buff.set_text(url): the buffer changes, so connect_changed runs
SetText(url) ==
    /\ tb_text' = Changed(url).text
    /\ Spawn(Tail(queue), Changed(url).spawn)

\* a handler that leaves the address field alone
NoText ==
    /\ queue' = Tail(queue)
    /\ UNCHANGED << tb_text, nsent >>

\* if back_urls.len() > 1
CanGoBack(urls) == Len(urls) > 1

\* back_urls.pop()
Pop(urls) == IF urls = << >> THEN None ELSE Some(Last(urls))

\* fwd_urls.push(x)
Push(urls, x) == Append(urls, x)

\* if fwd_urls.len() > 0
CanGoForward(urls) == Len(urls) > 0

\* a Forward that leaves the entry it took in fwd_urls
KeepFirst(urls) == urls

\* fwd_urls[0].clone(), fwd_urls.remove(0)
First(urls) == urls[1]
RemoveFirst(urls) == Tail(urls)

\* the Back handler with via_nav_btns set before the length test
BackClickedFlagFirst ==
    /\ Receives("BackClicked")
    /\ via_nav_btns' = TRUE
    /\ IF CanGoBack(back_urls)
       THEN LET rest == Front(back_urls)
                url == Last(rest)
            IN  /\ fwd_urls' = Push(fwd_urls, Pop(back_urls))
                /\ back_urls' = rest
                /\ loads' = Append(loads, Load(url, "back"))
                /\ SetText(url)
                /\ Did(<< LoadCmd(url), SetTextCmd(url) >>, FALSE)
       ELSE /\ Did(<< >>, FALSE)
            /\ NoText
            /\ UNCHANGED << back_urls, fwd_urls, loads >>
    /\ UNCHANGED << envVars, err_url, view_uri, panicked, nuser, nstarted >>

\* the Back handler with the test back_urls.len() > 0
BackClickedAnyLength ==
    /\ Receives("BackClicked")
    /\ IF Len(back_urls) > 0
       THEN LET rest == Front(back_urls)
                url == IF rest = << >> THEN << >> ELSE Last(rest)
            IN  /\ fwd_urls' = Push(fwd_urls, Pop(back_urls))
                /\ back_urls' = rest
                /\ via_nav_btns' = TRUE
                /\ loads' = Append(loads, Load(url, "back"))
                /\ SetText(url)
                /\ Did(<< LoadCmd(url), SetTextCmd(url) >>, FALSE)
       ELSE /\ Did(<< >>, FALSE)
            /\ NoText
            /\ UNCHANGED << back_urls, fwd_urls, via_nav_btns, loads >>
    /\ UNCHANGED << envVars, err_url, view_uri, panicked, nuser, nstarted >>

\* EventType::BackClicked
BackClicked ==
    /\ Receives("BackClicked")
    /\ IF CanGoBack(back_urls)
       THEN LET rest == Front(back_urls)
                url == Last(rest)
            IN  /\ fwd_urls' = Push(fwd_urls, Pop(back_urls))
                /\ back_urls' = rest
                /\ via_nav_btns' = TRUE
                /\ loads' = Append(loads, Load(url, "back"))
                /\ SetText(url)
                /\ Did(<< LoadCmd(url), SetTextCmd(url) >>, FALSE)
       ELSE /\ Did(<< >>, FALSE)
            /\ NoText
            /\ UNCHANGED << back_urls, fwd_urls, via_nav_btns, loads >>
    /\ UNCHANGED << envVars, err_url, view_uri, panicked, nuser, nstarted >>

\* EventType::ForwardClicked
ForwardClicked ==
    /\ Receives("ForwardClicked")
    /\ IF CanGoForward(fwd_urls)
       THEN IF First(fwd_urls) = None
            THEN \* unwrap() of None
                 /\ panicked' = TRUE
                 /\ Did(<< >>, TRUE)
                 /\ NoText
                 /\ UNCHANGED << back_urls, fwd_urls, via_nav_btns, loads >>
            ELSE LET url == First(fwd_urls)[1]
                 IN  /\ back_urls' = Append(back_urls, url)
                     /\ fwd_urls' = RemoveFirst(fwd_urls)
                     /\ via_nav_btns' = TRUE
                     /\ loads' = Append(loads, Load(url, "forward"))
                     /\ SetText(url)
                     /\ Did(<< LoadCmd(url), SetTextCmd(url) >>, FALSE)
                     /\ UNCHANGED panicked
       ELSE /\ Did(<< >>, FALSE)
            /\ NoText
            /\ UNCHANGED << back_urls, fwd_urls, via_nav_btns, loads,
                            panicked >>
    /\ UNCHANGED << envVars, err_url, view_uri, nuser, nstarted >>

\* EventType::RefreshClicked
RefreshClicked ==
    /\ Receives("RefreshClicked")
    /\ via_nav_btns' = TRUE
    /\ loads' = Append(loads, Load(view_uri, "refresh"))
    /\ Did(<< ReloadCmd >>, FALSE)
    /\ NoText
    /\ UNCHANGED << envVars, back_urls, fwd_urls, err_url, view_uri, panicked,
                    nuser, nstarted >>

\* a handler that drops every ChangedPage
SuppressedAlways(flag) == TRUE

\* if via_nav_btns { via_nav_btns = false; continue; }
Suppressed(flag) == flag

\* a visit recorded unless the page is already the current one
RecordVisitDedup(urls, url) ==
    IF urls # << >> /\ Last(urls) = url THEN urls ELSE Append(urls, url)

\* back_urls.push(event.url.clone())
RecordVisit(urls, url) == Append(urls, url)

\* the ChangedPage handler with a flag that, once set, stays set
ChangedPageKeepsFlag ==
    /\ Receives("ChangedPage")
    /\ IF Suppressed(via_nav_btns)
       THEN /\ Did(<< >>, FALSE)
            /\ NoText
            /\ UNCHANGED << back_urls, fwd_urls, via_nav_btns >>
       ELSE /\ fwd_urls' = << >>
            /\ back_urls' = RecordVisit(back_urls, Recv.ev.url)
            /\ SetText(Recv.ev.url)
            /\ Did(<< SetTextCmd(Recv.ev.url) >>, FALSE)
            /\ UNCHANGED via_nav_btns
    /\ UNCHANGED << envVars, err_url, loads, view_uri, panicked, nuser,
                    nstarted >>

\* EventType::ChangedPage
ChangedPage ==
    /\ Receives("ChangedPage")
    /\ IF Suppressed(via_nav_btns)
       THEN /\ via_nav_btns' = FALSE
            /\ Did(<< >>, FALSE)
            /\ NoText
            /\ UNCHANGED << back_urls, fwd_urls >>
       ELSE /\ fwd_urls' = << >>
            /\ back_urls' = RecordVisit(back_urls, Recv.ev.url)
            /\ SetText(Recv.ev.url)
            /\ Did(<< SetTextCmd(Recv.ev.url) >>, FALSE)
            /\ UNCHANGED via_nav_btns
    /\ UNCHANGED << envVars, err_url, loads, view_uri, panicked, nuser,
                    nstarted >>

\* a ChangePage handler that records the visit itself
ChangePageRecords ==
    /\ Receives("ChangePage")
    /\ back_urls' = RecordVisit(back_urls, Recv.ev.url)
    /\ loads' = Append(loads, Load(Recv.ev.url, "navigate"))
    /\ Did(<< LoadCmd(Recv.ev.url) >>, FALSE)
    /\ NoText
    /\ UNCHANGED << envVars, fwd_urls, via_nav_btns, err_url, view_uri,
                    panicked, nuser, nstarted >>

\* EventType::ChangePage
ChangePage ==
    /\ Receives("ChangePage")
    /\ loads' = Append(loads, Load(Recv.ev.url, "navigate"))
    /\ Did(<< LoadCmd(Recv.ev.url) >>, FALSE)
    /\ NoText
    /\ UNCHANGED << envVars, histVars, view_uri, panicked, nuser, nstarted >>

\* if event.url == err_url
FallbackFailed(url, err) == url = err

\* app.cfg.search_engine.replace("${}", &event.url)
SearchUrl(template, url) == Replace(template, url)

\* String::from("file://") + &home_dir
HomeUrl(home_dir) == << "file://" >> \o home_dir

\* EventType::FailedChangePage
FailedChangePage ==
    /\ Receives("FailedChangePage")
    /\ IF FallbackFailed(Recv.ev.url, err_url)
       THEN \E home_dir \in HomeDirs :
               IF home_dir = None
               THEN \* home_dir().unwrap() of None
                    /\ panicked' = TRUE
                    /\ Did(<< >>, TRUE)
                    /\ UNCHANGED << err_url, loads >>
               ELSE /\ loads' = Append(loads, Load(HomeUrl(home_dir[1]), "home"))
                    /\ Did(<< LoadCmd(HomeUrl(home_dir[1])) >>, FALSE)
                    /\ UNCHANGED << err_url, panicked >>
       ELSE LET url == SearchUrl(cfg.search_engine, Recv.ev.url)
            IN  /\ err_url' = url
                /\ loads' = Append(loads, Load(url, "search"))
                /\ Did(<< LoadCmd(url) >>, FALSE)
                /\ UNCHANGED panicked
    /\ NoText
    /\ UNCHANGED << envVars, back_urls, fwd_urls, via_nav_btns, view_uri,
                    nuser, nstarted >>

\* EventType::LoginRegister: the sign-in dialog is shown, nothing else
LoginRegister ==
    /\ Receives("LoginRegister")
    /\ Did(<< [ op |-> "dialog", url |-> << >> ] >>, FALSE)
    /\ NoText
    /\ UNCHANGED << envVars, histVars, loads, view_uri, panicked, nuser,
                    nstarted >>

\* the default configuration
Next ==
    \/ BackButton
    \/ ForwardButton
    \/ RefreshButton
    \/ AddressField
    \/ LinkClicked
    \/ LoadStarted
    \/ LoadFinished
    \/ LoadFailed
    \/ BackClicked
    \/ ForwardClicked
    \/ RefreshClicked
    \/ ChangedPage
    \/ ChangePage
    \/ FailedChangePage

Spec == Init /\ [][Next]_vars

\* the bookmark menu and the sync button of a configuration that has them
NextMenu ==
    \/ BookmarkItem
    \/ SyncButton
    \/ ChangePage
    \/ LoginRegister

SpecMenu == InitMenu /\ [][NextMenu]_vars

\* ------------------------------------------------------------------ claims
\* the event handler took the step, and the event it received was of type tp
Handles(tp) ==
    /\ queue # << >>
    /\ Recv.ev.tp = tp
    /\ handled' # handled

\* the one command of the last handler, if it gave exactly one
OneCmd(c) == last.cmds = << c >>

\* C1: ForwardClicked loads the page that the most recent BackClicked not yet
\* redone removed from back_urls.  BackClicked pushes that page at the end of
\* fwd_urls, so it is the last entry fwd_urls held before the event.
C1_ForwardTakesLastUndone ==
    (last.tp = "ForwardClicked" /\ last.fwd # << >> /\ ~last.panic)
        => /\ Last(back_urls) = Last(last.fwd)[1]
           /\ last.cmds[1] = LoadCmd(Last(last.fwd)[1])

\* C2: BackClicked with two or more entries in back_urls, followed at once by
\* ForwardClicked, leaves the current page, back_urls and fwd_urls as they
\* were before the BackClicked.
C2_BackForwardRoundTrip ==
    (/\ last.tp = "ForwardClicked"
     /\ last.prev.tp = "BackClicked"
     /\ Len(last.prev.back) >= 2)
        => /\ Last(back_urls) = Last(last.prev.back)
           /\ back_urls = last.prev.back
           /\ fwd_urls = last.prev.fwd

\* C3: a ChangedPage event handled while via_nav_btns is false appends its url
\* to back_urls, whatever back_urls holds, and leaves fwd_urls empty.
C3_VisitRecorded ==
    (last.tp = "ChangedPage" /\ ~last.via)
        => /\ back_urls = Append(last.back, last.url)
           /\ fwd_urls = << >>

\* C3 witness: a visit was recorded while fwd_urls was not empty, to a page
\* that was already the current one
C3_Witness ==
    /\ last.tp = "ChangedPage"
    /\ ~last.via
    /\ last.fwd # << >>
    /\ Last(last.back) = last.url
    /\ Len(back_urls) >= 3

\* C4: BackClicked with one entry in back_urls, and ForwardClicked with
\* fwd_urls empty, change nothing of the history, the flag, the stored fallback
\* url, the web view and the address field, and send nothing.
C4_NoOp ==
    [][ ( \/ Handles("BackClicked") /\ Len(back_urls) = 1
          \/ Handles("ForwardClicked") /\ fwd_urls = << >> )
        => /\ UNCHANGED << back_urls, fwd_urls, via_nav_btns, err_url, loads,
                           view_uri, tb_text, panicked >>
           /\ queue' = Tail(queue) ]_vars

\* C4 witness: a ForwardClicked handled with fwd_urls empty, right after a
\* BackClicked handled with one entry in back_urls
C4_Witness ==
    /\ last.tp = "ForwardClicked"
    /\ last.fwd = << >>
    /\ last.prev.tp = "BackClicked"
    /\ Len(last.prev.back) = 1
    /\ last.cmds = << >>

\* C5: a FailedChangePage whose url is not the stored fallback url loads the
\* search url built from it and stores that url; a FailedChangePage whose url
\* is the stored fallback url loads the home location and builds no search url.
C5_FallbackThenHome ==
    /\ (last.tp = "FailedChangePage" /\ last.url # last.err)
        => /\ OneCmd(LoadCmd(SearchUrl(cfg.search_engine, last.url)))
           /\ err_url = SearchUrl(cfg.search_engine, last.url)
    /\ (last.tp = "FailedChangePage" /\ last.url = last.err /\ last.err # << >>)
        => /\ \E home_dir \in HomeDirs \ { None } :
                  OneCmd(LoadCmd(HomeUrl(home_dir[1])))
           /\ err_url = last.err

\* C6: with no fallback stored (err_url empty), a FailedChangePage of any url,
\* the empty one included, loads the search url built from it and stores it.
\* (Stated for the handlers that did not panic.)
C6_FirstFailureSearches ==
    (last.tp = "FailedChangePage" /\ last.err = << >> /\ ~last.panic)
        => /\ OneCmd(LoadCmd(SearchUrl(cfg.search_engine, last.url)))
           /\ err_url = SearchUrl(cfg.search_engine, last.url)

\* the place in the menu of the node made from folder i of cfg.bookmarks
NodeOf(i) == Cardinality({ j \in 1..i : Len(cfg.bookmarks[j]) > 0 })

\* the ChangePage events waiting that the MenuItem at place at sent
SentFrom(at) ==
    { queue[k].ev : k \in { j \in 1..Len(queue) :
                              /\ queue[j].ev.src = "bookmark"
                              /\ queue[j].ev.at = at } }

\* C7: a folder with one entry [label, url] gives one top-level MenuItem that
\* shows the label and whose activation sends ChangePage with the entry's url.
C7_SingleEntryItem ==
    \A i \in 1..Len(cfg.bookmarks) :
        Len(cfg.bookmarks[i]) = 1
            => LET entry == cfg.bookmarks[i][1]
                   n == NodeOf(i)
               IN  /\ menu[n].kind = "item"
                   /\ menu[n].label = entry[1]
                   /\ \A ev \in SentFrom(<< n, 0 >>) :
                          ev.tp = "ChangePage" /\ ev.url = entry[2]

C9_FifoOnce ==
    /\ \A i \in 1..Len(handled) : handled[i] = i
    /\ \A j \in 1..Len(queue) : queue[j].id = Len(handled) + j
    /\ Len(handled) + Len(queue) = nsent
    /\ handled # << >> => last.id = Last(handled)

\* C9 witness: a button event and, behind it, a load callback's event wait,
\* after other events were handled
C9_Witness ==
    /\ Len(handled) >= 2
    /\ Len(queue) >= 2
    /\ queue[1].ev.src = "button"
    /\ queue[2].ev.tp \in { "ChangedPage", "FailedChangePage" }

\* C10: a ChangedPage that comes from a load or reload given by the Back,
\* Forward or Refresh handler leaves back_urls and fwd_urls unchanged, and a
\* ChangedPage that comes from a ChangePage load is recorded.
C10_SuppressedIffProgrammatic ==
    /\ (last.tp = "ChangedPage" /\ last.src \in { "back", "forward", "refresh" })
        => (back_urls = last.back /\ fwd_urls = last.fwd)
    /\ (last.tp = "ChangedPage" /\ last.src = "navigate")
        => back_urls = Append(last.back, last.url)

\* C11: the chain of fallbacks ends: a FailedChangePage of the load of the home
\* location gives the web view no further load and builds no search url.
C11_HomeFailureEndsChain ==
    (last.tp = "FailedChangePage" /\ last.src = "home")
        => /\ last.cmds = << >>
           /\ err_url = last.err

\* C12: a FailedChangePage whose url is the stored fallback url never ends the
\* event handler, whether the home directory resolves or not: the handler
\* stays ready for the events sent afterwards.
C12_HomeUnresolvedKeepsLoop ==
    (last.tp = "FailedChangePage" /\ FallbackFailed(last.url, last.err))
        => ~panicked

C14_NeverEmpty ==
    /\ Len(back_urls) >= 1
    /\ back_urls[1] = cfg.start_page
    /\ (last.tp = "BackClicked" /\ back_urls # last.back) => Len(last.back) >= 2

\* C14 witness: a BackClicked handled with one entry in back_urls, right after
\* a BackClicked that removed one of two
C14_Witness ==
    /\ last.tp = "BackClicked"
    /\ Len(last.back) = 1
    /\ last.prev.tp = "BackClicked"
    /\ Len(last.prev.back) = 2
    /\ Len(back_urls) = 1

\* C15: a ChangedPage handled while via_nav_btns is true clears the flag and
\* leaves back_urls, fwd_urls and err_url as they were, without a set_text;
\* the ChangedPage handled right after it finds the flag cleared and is
\* recorded.
C15_SuppressedOnce ==
    /\ (last.tp = "ChangedPage" /\ last.via)
        => /\ ~via_nav_btns
           /\ back_urls = last.back
           /\ fwd_urls = last.fwd
           /\ err_url = last.err
           /\ last.cmds = << >>
    /\ (/\ last.tp = "ChangedPage"
        /\ last.prev.tp = "ChangedPage"
        /\ last.back = last.prev.back)
        => /\ ~last.via
           /\ back_urls = Append(last.back, last.url)

\* C15 witness: a ChangedPage recorded right after a suppressed one
C15_Witness ==
    /\ last.tp = "ChangedPage"
    /\ last.prev.tp = "ChangedPage"
    /\ last.back = last.prev.back
    /\ back_urls = Append(last.back, last.url)
    /\ ~via_nav_btns

C17_FallbackConsumed ==
    (last.tp = "FailedChangePage" /\ ~last.panic /\ err_url = last.err)
        => /\ err_url = SearchUrl(cfg.search_engine, last.url)
           /\ OneCmd(LoadCmd(err_url))

\* C18: no handler of the dispatcher sends an event, set_text of the address
\* field included; one edit of the address field by the user sends one
\* ChangePage event if the text holds a line break and none otherwise, the
\* event carries the text without its line breaks, and the edit changes
\* neither the history nor the web view.
C18_FieldWritesSendNothing ==
    [][ /\ handled' # handled => (nsent' = nsent /\ queue' = Tail(queue))
        /\ (/\ nuser' # nuser
            /\ \/ tb_text' # tb_text
               \/ nsent' # nsent /\ Last(queue').ev.tp = "ChangePage")
            => /\ UNCHANGED << back_urls, fwd_urls, via_nav_btns, err_url,
                               loads, view_uri >>
               /\ \E txt \in UserTexts :
                      /\ tb_text' = SplitCollect(txt)
                      /\ LineCount(tb_text') = 1
                      /\ IF LineCount(txt) > 1
                         THEN /\ nsent' = nsent + 1
                              /\ queue' = Append(queue,
                                     [ ev |-> Event("ChangePage", SplitCollect(txt),
                                                    "field"),
                                       id |-> nsent' ])
                         ELSE UNCHANGED << nsent, queue >> ]_vars

\* C18 witness: the user's entry was sent once and handled, its load started,
\* and the recorded ChangedPage wrote the address field; no event waits
C18_Witness ==
    /\ last.tp = "ChangedPage"
    /\ last.src = "navigate"
    /\ last.url = << "b" >>
    /\ last.cmds = << SetTextCmd(last.url) >>
    /\ tb_text = last.url
    /\ queue = << >>
    /\ nsent = Len(handled)

\* C19: once the ChangedPage of the load of the start page is handled, with no
\* event handled before it, back_urls holds the start page once, so that a
\* BackClicked arriving next has nothing to go back to.
C19_StartPageOnce ==
    (last.tp = "ChangedPage" /\ last.src = "start" /\ Len(handled) = 1)
        => /\ back_urls = << cfg.start_page >>
           /\ ~CanGoBack(back_urls)

\* how many times url is held: in back_urls, and in fwd_urls as Some(url)
Count(urls, x) == Cardinality({ i \in 1..Len(urls) : urls[i] = x })
Held(back, fwd, url) == Count(back, url) + Count(fwd, Some(url))
UrlsOf(back, fwd) ==
    { back[i] : i \in 1..Len(back) }
    \cup { fwd[i][1] : i \in { j \in 1..Len(fwd) : fwd[j] # None } }

\* C20: BackClicked and ForwardClicked keep the urls held in back_urls and
\* fwd_urls together, each as many times as before; every entry of fwd_urls
\* is Some(url), so ForwardClicked never fails on the entry it takes.
C20_BackForwardKeepEntries ==
    /\ \A i \in 1..Len(fwd_urls) : fwd_urls[i] # None
    /\ last.tp \in { "BackClicked", "ForwardClicked" }
        => /\ ~last.panic
           /\ Len(back_urls) + Len(fwd_urls) = Len(last.back) + Len(last.fwd)
           /\ \A url \in UrlsOf(last.back, last.fwd) \cup UrlsOf(back_urls, fwd_urls) :
                  Held(back_urls, fwd_urls, url) = Held(last.back, last.fwd, url)

\* C20 witness: a ForwardClicked that took an entry, right after a BackClicked
\* that removed one, with two different pages in the history
C20_Witness ==
    /\ last.tp = "ForwardClicked"
    /\ last.fwd # << >>
    /\ last.prev.tp = "BackClicked"
    /\ Len(last.prev.back) >= 3
    /\ Len(back_urls) >= 3
    /\ back_urls[1] # back_urls[3]

====
